---- MODULE Spec2Model ----
(***************************************************************************)
(* The webhook relay of webwhatsappHandler: POST /webhook, its status      *)
(* reconciliation, its reply decision and the two Supabase tables it       *)
(* writes (messages, contacts).  Every await of a handler is one step, so  *)
(* two handlers interleave exactly where Node lets them.                   *)
(*                                                                         *)
(* Conventions: SQL NULL / JS null / undefined of a text field is the      *)
(* string NULL; of a time field it is 0; an optional object is a sequence  *)
(* of length 0 or 1 (the payload's statuses and messages are arrays, read  *)
(* with ?.[0]).  new Date() reads the logical clock Now.  The store is     *)
(* abstract: a call either takes effect, in the step that awaits it, or    *)
(* returns an error (the ok argument of a step); it enforces the not-null  *)
(* constraint on contacts.phone and nothing else of the schema.            *)
(*                                                                         *)
(* Spec lets two webhook handlers interleave; SpecSeq handles one request *)
(* at a time, POST /contacts/set-name included.  In both every send and    *)
(* store call succeeds.  SpecFault handles one webhook at a time, lets up  *)
(* to MaxFaults awaited calls of a request fail, and starts with or        *)
(* without a store client.                                                 *)
(* SpecLogs handles webhooks and GET /logs queries one at a time, with a   *)
(* query that may fail.                                                    *)
(***************************************************************************)
EXTENDS Integers, Sequences, FiniteSets, TLC

VARIABLES supabase, messages, contacts, handlers, received

vars == <<supabase, messages, contacts, handlers, received>>

NULL == "null"

\* ------------------------------------------------------------- bounds
MaxRequests == 3
MaxFaultRequests == 2
MaxFaults == 1

\* ---------------------------------------------------------- environment
PHONE_NUMBER_ID == "self"
WELCOME_MESSAGE == "Hi! Thanks for reaching out. ... How can I help you today?"
CTA_TEXT == "Thanks for your interest! You can call me or visit my website."

Handlers == {"h1", "h2"}

\* ------------------------------------------------------------- payloads
StatusObj(id, st, rcpt) == [id |-> id, status |-> st, recipient_id |-> rcpt]

TextMsg(from, id) ==
  [from |-> from, to |-> NULL, id |-> id, type |-> "text", timestamp |-> 0,
   text |-> <<[body |-> "hello"]>>, interactive |-> <<>>]

InteractiveMsg(from, id, itype) ==
  [from |-> from, to |-> NULL, id |-> id, type |-> "interactive", timestamp |-> 0,
   text |-> <<>>,
   interactive |-> <<[type |-> itype,
                      reply |-> [id |-> "second_option", title |-> "Second option"]]>>]

OtherMsg(from, id) ==
  [from |-> from, to |-> NULL, id |-> id, type |-> "image", timestamp |-> 0,
   text |-> <<>>, interactive |-> <<>>]

\* req.body: envelope says how much of entry[0].changes[0].value is there.
Payload(env, st, msg) == [envelope |-> env, statuses |-> st, messages |-> msg]

NoPayload == Payload("none", <<>>, <<>>)

StatusOnly ==
  { Payload("ok", <<StatusObj(id, st, "p1")>>, <<>>) :
      id \in {"m1", "m2"}, st \in {"sent", "read"} }

MessageOnly ==
  { Payload("ok", <<>>, <<m>>) :
      m \in { TextMsg("p1", "m1"), TextMsg("p1", "m2"),
              InteractiveMsg("p1", "m2", "list_reply"),
              InteractiveMsg("p1", "m2", "button_reply"),
              InteractiveMsg("p1", "m2", "nfm_reply"),
              OtherMsg("p1", "m2"),
              TextMsg(PHONE_NUMBER_ID, "m1") } }

StatusAndMessage ==
  { Payload("ok", <<StatusObj("m1", "sent", "p1")>>, <<TextMsg(PHONE_NUMBER_ID, "m2")>>),
    Payload("ok", <<StatusObj("m1", "read", "p1")>>, <<TextMsg("p1", "m1")>>) }

\* Bodies the handler's envelope checks stop: no entry, entry = [], no
\* changes, changes = [], and a change without a value.
BadEnvelope ==
  { Payload(env, <<>>, <<>>) :
      env \in {"no_entry", "empty_entry", "no_changes", "empty_changes", "no_value"} }

\* A value with neither statuses nor messages
EmptyValue == Payload("ok", <<>>, <<>>)

SeqPayloads ==
  StatusOnly \cup MessageOnly \cup StatusAndMessage \cup BadEnvelope \cup {EmptyValue}

ConcPayloads ==
  { Payload("ok", <<StatusObj("m1", "sent", "p1")>>, <<>>),
    Payload("ok", <<StatusObj("m1", "read", "p1")>>, <<>>),
    Payload("ok", <<>>, <<TextMsg("p1", "m1")>>) }

FaultPayloads ==
  { Payload("ok", <<>>, <<TextMsg("p1", "m1")>>),
    Payload("ok", <<>>, <<InteractiveMsg("p1", "m2", "list_reply")>>),
    Payload("ok", <<StatusObj("m1", "sent", "p1")>>, <<>>),
    Payload("ok", <<StatusObj("m1", "read", "p1")>>, <<TextMsg("p1", "m1")>>) }

\* req.query of GET /logs: limit and page, each a number or (<<>>) absent or
\* not a number
LogsQueries ==
  { [limit |-> l, page |-> p] :
      l \in {<<>>, <<-5>>, <<0>>, <<1>>, <<2>>, <<200>>, <<201>>},
      p \in {<<>>, <<-1>>, <<0>>, <<1>>, <<2>>} }

\* What the logs spec feeds the webhook with
LogsPayloads ==
  { Payload("ok", <<StatusObj("m1", "sent", "p1")>>, <<>>),
    Payload("ok", <<>>, <<TextMsg("p1", "m2")>>) }

\* req.body of POST /contacts/set-name
SetNameBodies ==
  { [phone |-> "p1", name |-> "Alice"],
    [phone |-> "p1", name |-> NULL],
    [phone |-> NULL, name |-> "Alice"] }

HasStatus(p) == p.statuses # <<>>
HasMessage(p) == p.messages # <<>>

\* ---------------------------------------------------------------- store
Now == received

BaseRow ==
  [kind |-> NULL, from |-> NULL, to |-> NULL, type |-> NULL, body |-> NULL,
   message_id |-> NULL, reply_to_message_id |-> NULL, status |-> NULL,
   timestamp |-> 0, interactive |-> <<>>, interactive_selection |-> <<>>,
   raw |-> <<>>, phone |-> NULL, created_at |-> 0, updated_at |-> 0]

\* logMessageToSupabase: the normalized phone column
Normalized(payload) ==
  [payload EXCEPT !.phone = IF payload.kind = "incoming" THEN payload.from
                            ELSE payload.to]

\* .insert(normalized): created_at defaults to now()
Insert(rows, payload, now) ==
  Append(rows, [Normalized(payload) EXCEPT !.created_at = now])

\* .eq('message_id', id)
Matching(rows, id) == { i \in 1..Len(rows) : rows[i].message_id = id }

RowCount(rows, id) == Cardinality(Matching(rows, id))

\* .select('id, status').eq('message_id', id).single(): data is the row when
\* exactly one row matches, and null (with an error) otherwise.
SingleMessage(rows, id) ==
  IF Cardinality(Matching(rows, id)) = 1
    THEN LET i == CHOOSE j \in Matching(rows, id) : TRUE
         IN <<[id |-> i, status |-> rows[i].status]>>
    ELSE <<>>

\* Mutants of the status update: it stamps updated_at but leaves status;
\* it appends a copy of the row instead of updating in place.
UpdateStatus_KeepsStatus(rows, id, st, now) ==
  [i \in 1..Len(rows) |->
     IF rows[i].message_id = id THEN [rows[i] EXCEPT !.updated_at = now] ELSE rows[i]]

UpdateStatus_Appends(rows, id, st, now) ==
  Append(rows, [rows[CHOOSE j \in Matching(rows, id) : TRUE] EXCEPT
                  !.status = st, !.created_at = now])

\* .update({status, updated_at}).eq('message_id', id)
UpdateStatus(rows, id, st, now) ==
  [i \in 1..Len(rows) |->
     IF rows[i].message_id = id
       THEN [rows[i] EXCEPT !.status = st, !.updated_at = now]
       ELSE rows[i]]

\* Mutant of the status row: the recipient is dropped.
StatusRow_NoRecipient(p) ==
  LET s == p.statuses[1] IN
  [BaseRow EXCEPT !.kind = "status", !.from = PHONE_NUMBER_ID,
                  !.message_id = s.id, !.status = s.status, !.raw = <<p>>]

\* The row of the status branch's logMessageToSupabase call
StatusRow(p) ==
  LET s == p.statuses[1] IN
  [BaseRow EXCEPT !.kind = "status", !.from = PHONE_NUMBER_ID,
                  !.message_id = s.id, !.status = s.status,
                  !.to = s.recipient_id, !.raw = <<p>>]

BaseDelta ==
  [name |-> NULL, last_message_id |-> NULL, last_body |-> NULL,
   last_type |-> NULL, last_kind |-> NULL, last_direction |-> NULL,
   last_sender_id |-> NULL, last_recipient_phone |-> NULL, last_timestamp |-> 0]

\* upsertContact's payload: every column is written, null where update has none
ContactPayload(phone, update, now) ==
  [phone |-> phone,
   name |-> update.name,
   last_message_id |-> update.last_message_id,
   last_body |-> update.last_body,
   last_type |-> update.last_type,
   last_kind |-> update.last_kind,
   last_direction |-> update.last_direction,
   last_sender_id |-> update.last_sender_id,
   last_recipient_phone |-> update.last_recipient_phone,
   last_timestamp |-> IF update.last_timestamp # 0 THEN update.last_timestamp ELSE now,
   updated_at |-> now]

\* Mutant of the upsert: the row is replaced whole, total_messages back at
\* its default.
Upsert_ResetsTotal(cs, phone, update, now) ==
  LET new == [f \in DOMAIN ContactPayload(phone, update, now) \cup {"total_messages"} |->
                IF f = "total_messages" THEN 0
                ELSE ContactPayload(phone, update, now)[f]]
  IN [q \in DOMAIN cs \cup {phone} |-> IF q = phone THEN new ELSE cs[q]]

\* .upsert(payload, { onConflict: 'phone' }): total_messages is not in the
\* payload, so it keeps its value (default 0 on insert).
Upsert(cs, phone, update, now) ==
  LET old == IF phone \in DOMAIN cs THEN cs[phone].total_messages ELSE 0
      new == [f \in DOMAIN ContactPayload(phone, update, now) \cup {"total_messages"} |->
                IF f = "total_messages" THEN old
                ELSE ContactPayload(phone, update, now)[f]]
  IN [q \in DOMAIN cs \cup {phone} |-> IF q = phone THEN new ELSE cs[q]]

\* rpc('increment_contact_messages', { p_phone })
Increment(cs, phone) ==
  IF phone \in DOMAIN cs
    THEN [cs EXCEPT ![phone].total_messages = @ + 1]
    ELSE cs


\* ------------------------------------------------------- webhook handler
\* Mutant of the loop prevention: the self check never fires.
IsSelf_Never(m) == FALSE

\* messages.from === PHONE_NUMBER_ID
IsSelf(m) == m.from = PHONE_NUMBER_ID

\* message.text?.body || null
TextBody(m) == IF m.text # <<>> THEN m.text[1].body ELSE NULL

\* The phone of the status branch's upsertContact:
\* statuses.recipient_id || statuses.from || messages?.from || null
StatusPhone(p) ==
  IF p.statuses[1].recipient_id # NULL THEN p.statuses[1].recipient_id
  ELSE IF HasMessage(p) THEN p.messages[1].from
  ELSE NULL

\* Mutant of the status upsert: the status is filed as our own outgoing message.
StatusDelta_Outgoing(p) ==
  LET s == p.statuses[1] IN
  [BaseDelta EXCEPT !.last_message_id = s.id, !.last_body = s.status,
                    !.last_type = "status", !.last_kind = "reply",
                    !.last_direction = "outgoing",
                    !.last_sender_id = PHONE_NUMBER_ID,
                    !.last_recipient_phone = s.recipient_id]

\* The delta of the status branch's upsertContact call
StatusDelta(p) ==
  LET s == p.statuses[1] IN
  [BaseDelta EXCEPT !.last_message_id = s.id, !.last_body = s.status,
                    !.last_type = "status", !.last_kind = "status",
                    !.last_direction = "incoming",
                    !.last_sender_id = PHONE_NUMBER_ID,
                    !.last_recipient_phone = s.recipient_id]

IncomingRow(m) ==
  [BaseRow EXCEPT !.kind = "incoming", !.from = m.from, !.to = m.to,
                  !.type = m.type, !.body = TextBody(m),
                  !.interactive = m.interactive, !.message_id = m.id,
                  !.timestamp = m.timestamp, !.raw = <<m>>]

\* Mutant of the incoming upsert: it files the event under the reply's kind.
IncomingDelta_AsReply(m) ==
  [BaseDelta EXCEPT !.last_message_id = m.id, !.last_body = TextBody(m),
                    !.last_type = m.type, !.last_kind = "reply",
                    !.last_direction = "incoming", !.last_sender_id = m.from,
                    !.last_timestamp = IF m.timestamp # 0 THEN m.timestamp * 1000 ELSE 0]

\* The delta of the webhook's own upsertContact call for a message
IncomingDelta(m) ==
  [BaseDelta EXCEPT !.last_message_id = m.id, !.last_body = TextBody(m),
                    !.last_type = m.type, !.last_kind = "incoming",
                    !.last_direction = "incoming", !.last_sender_id = m.from,
                    !.last_timestamp = IF m.timestamp # 0 THEN m.timestamp * 1000 ELSE 0]

\* hasReceivedWelcome: data?.last_kind, with data from
\* .select('last_kind').eq('phone', phone).single()
ContactLastKind(cs, phone) ==
  IF phone \in DOMAIN cs THEN cs[phone].last_kind ELSE NULL

\* Mutants of hasReceivedWelcome: any contact record counts as welcomed;
\* nobody ever counts as welcomed.
HasReceivedWelcome_AnyRecord(lastKind) == lastKind # NULL

HasReceivedWelcome_Never(lastKind) == FALSE

\* hasReceivedWelcome: data?.last_kind === 'reply'
HasReceivedWelcome(lastKind) == lastKind = "reply"

\* Which reply the handlers of handleIncomingMessage send for message m,
\* given what hasReceivedWelcome read.
ReplyKind(m, lastKind) ==
  IF m.type = "text"
    THEN IF ~HasReceivedWelcome(lastKind) THEN "welcome" ELSE "buttons"
  ELSE IF m.type = "interactive" /\ m.interactive[1].type = "list_reply" THEN "list_reply"
  ELSE IF m.type = "interactive" /\ m.interactive[1].type = "button_reply" THEN "button_reply"
  ELSE "none"

\* Mutant of the acknowledgment text: the title is left out.
SelectionText_NoTitle(what, reply) ==
  "You selected the " \o what \o " with ID " \o reply.id

\* `You selected the ${what} with ID ${reply.id} - Title ${reply.title}`
SelectionText(what, reply) ==
  "You selected the " \o what \o " with ID " \o reply.id \o " - Title " \o reply.title

\* The body of the kind=reply row and of the text sends
ReplyBody(m, kind) ==
  CASE kind = "welcome" -> WELCOME_MESSAGE
    [] kind = "buttons" -> "Get in touch"
    [] kind = "list_reply" -> SelectionText("option", m.interactive[1].reply)
    [] kind = "button_reply" -> SelectionText("button", m.interactive[1].reply)

\* The request handed to sendWhatsAppRequest by replyMessage,
\* sendCallAndWebsiteButtons and sendMessage.
ReplySend(m, kind) ==
  CASE kind = "welcome" ->
         [fn |-> "replyMessage", to |-> m.from, type |-> "text",
          body |-> WELCOME_MESSAGE, context |-> m.id]
    [] kind = "buttons" ->
         [fn |-> "sendCallAndWebsiteButtons", to |-> m.from, type |-> "interactive",
          body |-> CTA_TEXT, context |-> NULL]
    [] OTHER ->
         [fn |-> "sendMessage", to |-> m.from, type |-> "text",
          body |-> ReplyBody(m, kind), context |-> NULL]

\* Mutant of the reply row: it does not say which message it answers.
ReplyRow_NoContext(m, kind) ==
  [BaseRow EXCEPT !.kind = "reply", !.to = m.from, !.from = PHONE_NUMBER_ID,
                  !.type = IF kind = "buttons" THEN "interactive" ELSE "text",
                  !.body = ReplyBody(m, kind),
                  !.interactive_selection =
                     IF kind \in {"list_reply", "button_reply"}
                       THEN <<m.interactive[1].reply>> ELSE <<>>]

\* The row of the reply path's logMessageToSupabase call
ReplyRow(m, kind) ==
  [BaseRow EXCEPT !.kind = "reply", !.to = m.from, !.from = PHONE_NUMBER_ID,
                  !.type = IF kind = "buttons" THEN "interactive" ELSE "text",
                  !.body = ReplyBody(m, kind),
                  !.reply_to_message_id =
                     IF kind \in {"welcome", "buttons"} THEN m.id ELSE NULL,
                  !.interactive_selection =
                     IF kind \in {"list_reply", "button_reply"}
                       THEN <<m.interactive[1].reply>> ELSE <<>>]

ReplyDelta(m, kind) ==
  [BaseDelta EXCEPT !.last_message_id = m.id,
                    !.last_body = IF kind = "buttons"
                                    THEN "Call/Website buttons sent"
                                    ELSE ReplyBody(m, kind),
                    !.last_type = IF kind = "buttons" THEN "interactive" ELSE "text",
                    !.last_kind = "reply", !.last_direction = "reply",
                    !.last_sender_id = PHONE_NUMBER_ID,
                    !.last_recipient_phone = m.from]

\* Mutant of the dispatch: a message that gets no reply is not logged either.
MessagePc_SkipsUnclassified(p, configured) ==
  IF ~HasMessage(p) THEN "done"
  ELSE IF IsSelf(p.messages[1]) THEN "done"
  ELSE IF p.messages[1].type = "text"
    THEN IF configured THEN "hw_lookup" ELSE "send"
  ELSE IF ReplyKind(p.messages[1], NULL) # "none" THEN "send"
  ELSE "done"

\* Where the handler goes once the status branch is over: the self check
\* and handleIncomingMessage's dispatch, up to their first await.
MessagePc(p, configured) ==
  IF ~HasMessage(p) THEN "done"
  ELSE IF IsSelf(p.messages[1]) THEN "done"
  ELSE IF p.messages[1].type = "text"
    THEN IF configured THEN "hw_lookup" ELSE "send"
  ELSE IF ReplyKind(p.messages[1], NULL) # "none" THEN "send"
  ELSE "in_insert"

IdleHandler ==
  [pc |-> "idle", req |-> NoPayload, prev |-> NoPayload, existingMessage |-> <<>>,
   lastKind |-> NULL, sends |-> <<>>, calls |-> <<>>, res |-> 0, startLen |-> 0,
   body |-> <<>>, logs |-> <<>>]

\* Mutant of the handler's error handling: a failed store call ends the
\* request with HTTP 500.
Goto_AbortsOnFailure(h, ok, pc) ==
  handlers' = [handlers EXCEPT
                 ![h].calls = Append(@, [site |-> handlers[h].pc, ok |-> ok]),
                 ![h].pc = IF ok THEN pc ELSE "done",
                 ![h].res = IF ~ok THEN 500 ELSE IF pc = "done" THEN 200 ELSE @]

\* The awaited call at the handler's position returned (ok: it took effect);
\* the handler goes on to pc.  calls lists the request's awaited calls so far.
Goto(h, ok, pc) ==
  handlers' = [handlers EXCEPT
                 ![h].calls = Append(@, [site |-> handlers[h].pc, ok |-> ok]),
                 ![h].pc = pc,
                 ![h].res = IF pc = "done" THEN 200 ELSE @]

Init ==
  /\ supabase = TRUE
  /\ messages = <<>>
  /\ contacts = [q \in {} |-> 0]
  /\ handlers = [h \in Handlers |-> IdleHandler]
  /\ received = 0

\* app.post('/webhook'): the synchronous start of the handler
Receive(h, p) ==
  /\ handlers[h].pc \in {"idle", "done"}
  /\ received' = received + 1
  /\ LET fresh == [IdleHandler EXCEPT !.req = p, !.prev = handlers[h].req,
                                      !.startLen = Len(messages)]
         pc == IF p.envelope \in {"no_entry", "empty_entry", "no_changes", "empty_changes"}
                 THEN "done400"
               ELSE IF p.envelope = "no_value" THEN "done500"
               ELSE IF HasStatus(p) THEN (IF supabase THEN "st_lookup" ELSE "done500")
               ELSE MessagePc(p, supabase)
     IN handlers' = [handlers EXCEPT ![h] =
          [fresh EXCEPT !.pc = IF pc \in {"done400", "done500"} THEN "done" ELSE pc,
                        !.res = CASE pc = "done400" -> 400
                                  [] pc = "done500" -> 500
                                  [] pc = "done" -> 200
                                  [] OTHER -> 0]]
  /\ UNCHANGED <<supabase, messages, contacts>>

\* the lookup of the row to update
StatusLookup(h, ok) ==
  /\ handlers[h].pc = "st_lookup"
  /\ LET data == IF ok THEN SingleMessage(messages, handlers[h].req.statuses[1].id)
                 ELSE <<>>
     IN handlers' = [handlers EXCEPT ![h].existingMessage = data,
                                     ![h].calls = Append(@, [site |-> "st_lookup", ok |-> ok]),
                                     ![h].pc = IF data # <<>> THEN "st_update"
                                               ELSE "st_insert"]
  /\ UNCHANGED <<supabase, messages, contacts, received>>

\* if (existingMessage): update its status
StatusUpdate(h, ok) ==
  /\ handlers[h].pc = "st_update"
  /\ LET s == handlers[h].req.statuses[1]
     IN messages' = IF ok THEN UpdateStatus(messages, s.id, s.status, Now) ELSE messages
  /\ Goto(h, ok, "st_upsert")
  /\ UNCHANGED <<supabase, contacts, received>>

\* else: log as new status entry
StatusInsert(h, ok) ==
  /\ handlers[h].pc = "st_insert"
  /\ messages' = IF ok /\ supabase THEN Insert(messages, StatusRow(handlers[h].req), Now)
                 ELSE messages
  /\ Goto(h, ok /\ supabase, "st_upsert")
  /\ UNCHANGED <<supabase, contacts, received>>

\* upsertContact, first await: the upsert.  A null phone violates the
\* column's not-null constraint, so the store returns an error.
UpsertStep(h, ok, phone, update, incr, after) ==
  IF supabase /\ ok /\ phone # NULL
    THEN /\ contacts' = Upsert(contacts, phone, update, Now)
         /\ Goto(h, TRUE, incr)
    ELSE /\ contacts' = contacts
         /\ Goto(h, FALSE, after)

\* Mutant of the counter step: a failed increment takes the upserted record
\* back out.
IncrementStep_RollsBack(h, ok, phone, after) ==
  /\ contacts' = IF ok THEN Increment(contacts, phone)
                 ELSE [q \in DOMAIN contacts \ {phone} |-> contacts[q]]
  /\ Goto(h, ok, after)

\* upsertContact, second await: the counter
IncrementStep(h, ok, phone, after) ==
  /\ contacts' = IF ok THEN Increment(contacts, phone) ELSE contacts
  /\ Goto(h, ok, after)

StatusUpsert(h, ok) ==
  /\ handlers[h].pc = "st_upsert"
  /\ UpsertStep(h, ok, StatusPhone(handlers[h].req), StatusDelta(handlers[h].req),
                "st_incr", MessagePc(handlers[h].req, supabase))
  /\ UNCHANGED <<supabase, messages, received>>

StatusIncrement(h, ok) ==
  /\ handlers[h].pc = "st_incr"
  /\ IncrementStep(h, ok, StatusPhone(handlers[h].req),
                   MessagePc(handlers[h].req, supabase))
  /\ UNCHANGED <<supabase, messages, received>>

\* hasReceivedWelcome's query
WelcomeLookup(h, ok) ==
  /\ handlers[h].pc = "hw_lookup"
  /\ handlers' = [handlers EXCEPT
       ![h].lastKind = IF ok THEN ContactLastKind(contacts, handlers[h].req.messages[1].from)
                       ELSE NULL,
       ![h].calls = Append(@, [site |-> "hw_lookup", ok |-> ok]),
       ![h].pc = "send"]
  /\ UNCHANGED <<supabase, messages, contacts, received>>

\* Mutant of the inner catch: a failed send does not stop the reply path.
AfterSendPc_Continues(ok) == "rp_insert"

\* Where handleIncomingMessage goes after its send: on to the reply row, or,
\* when the send threw, out through the webhook's inner try/catch to the
\* incoming row.
AfterSendPc(ok) == IF ok THEN "rp_insert" ELSE "in_insert"

\* replyMessage / sendCallAndWebsiteButtons / sendMessage: a failed send
\* throws, and the webhook's inner catch goes on with the incoming row.
Send(h, ok) ==
  /\ handlers[h].pc = "send"
  /\ LET m == handlers[h].req.messages[1]
         out == ReplySend(m, ReplyKind(m, handlers[h].lastKind))
     IN handlers' = [handlers EXCEPT
          ![h].sends = Append(@, [request |-> out, ok |-> ok]),
          ![h].calls = Append(@, [site |-> "send", ok |-> ok]),
          ![h].pc = AfterSendPc(ok)]
  /\ UNCHANGED <<supabase, messages, contacts, received>>

ReplyInsert(h, ok) ==
  /\ handlers[h].pc = "rp_insert"
  /\ LET m == handlers[h].req.messages[1]
     IN messages' = IF ok /\ supabase
                      THEN Insert(messages, ReplyRow(m, ReplyKind(m, handlers[h].lastKind)), Now)
                      ELSE messages
  /\ Goto(h, ok /\ supabase, "rp_upsert")
  /\ UNCHANGED <<supabase, contacts, received>>

ReplyUpsert(h, ok) ==
  /\ handlers[h].pc = "rp_upsert"
  /\ LET m == handlers[h].req.messages[1]
     IN UpsertStep(h, ok, m.from, ReplyDelta(m, ReplyKind(m, handlers[h].lastKind)),
                   "rp_incr", "in_insert")
  /\ UNCHANGED <<supabase, messages, received>>

\* Mutant of the reply path's end: the request is answered right after the
\* reply bookkeeping, without the incoming row and upsert.
ReplyIncrement_EndsRequest(h, ok) ==
  /\ handlers[h].pc = "rp_incr"
  /\ IncrementStep(h, ok, handlers[h].req.messages[1].from, "done")
  /\ UNCHANGED <<supabase, messages, received>>

ReplyIncrement(h, ok) ==
  /\ handlers[h].pc = "rp_incr"
  /\ IncrementStep(h, ok, handlers[h].req.messages[1].from, "in_insert")
  /\ UNCHANGED <<supabase, messages, received>>

IncomingInsert(h, ok) ==
  /\ handlers[h].pc = "in_insert"
  /\ messages' = IF ok /\ supabase
                   THEN Insert(messages, IncomingRow(handlers[h].req.messages[1]), Now)
                   ELSE messages
  /\ Goto(h, ok /\ supabase, "in_upsert")
  /\ UNCHANGED <<supabase, contacts, received>>

IncomingUpsert(h, ok) ==
  /\ handlers[h].pc = "in_upsert"
  /\ LET m == handlers[h].req.messages[1]
     IN UpsertStep(h, ok, m.from, IncomingDelta(m), "in_incr", "done")
  /\ UNCHANGED <<supabase, messages, received>>

IncomingIncrement(h, ok) ==
  /\ handlers[h].pc = "in_incr"
  /\ IncrementStep(h, ok, handlers[h].req.messages[1].from, "done")
  /\ UNCHANGED <<supabase, messages, received>>

\* app.post('/contacts/set-name'): the synchronous start of the handler
ReceiveSetName(h, b) ==
  /\ handlers[h].pc \in {"idle", "done"}
  /\ received' = received + 1
  /\ LET fresh == [IdleHandler EXCEPT !.body = <<b>>, !.prev = handlers[h].req,
                                      !.startLen = Len(messages)]
     IN handlers' = [handlers EXCEPT ![h] =
          IF ~supabase THEN [fresh EXCEPT !.pc = "done", !.res = 500]
          ELSE IF b.phone = NULL \/ b.name = NULL
            THEN [fresh EXCEPT !.pc = "done", !.res = 400]
          ELSE [fresh EXCEPT !.pc = "sn_upsert"]]
  /\ UNCHANGED <<supabase, messages, contacts>>

\* upsertContact(phone, { name })
SetNameDelta(b) == [BaseDelta EXCEPT !.name = b.name]

SetNameUpsert(h, ok) ==
  /\ handlers[h].pc = "sn_upsert"
  /\ UpsertStep(h, ok, handlers[h].body[1].phone, SetNameDelta(handlers[h].body[1]),
                "sn_incr", "done")
  /\ UNCHANGED <<supabase, messages, received>>

SetNameIncrement(h, ok) ==
  /\ handlers[h].pc = "sn_incr"
  /\ IncrementStep(h, ok, handlers[h].body[1].phone, "done")
  /\ UNCHANGED <<supabase, messages, received>>

\* ------------------------------------------------------------ GET /logs
DefaultLimit == 50
MaxLimit == 200
DefaultPage == 1

\* Number(x) || dflt, for x a number, absent or not a number
NumberOr(x, dflt) == IF x = <<>> \/ x[1] = 0 THEN dflt ELSE x[1]

Min(a, b) == IF a <= b THEN a ELSE b
Max(a, b) == IF a >= b THEN a ELSE b

\* const l = Math.min(Number(limit) || 50, 200)
EffectiveLimit(q) == Min(NumberOr(q.limit, DefaultLimit), MaxLimit)

\* const p = Math.max(Number(page) || 1, 1)
EffectivePage(q) == Max(NumberOr(q.page, DefaultPage), 1)

\* const from = (p - 1) * l
RangeFrom(q) == (EffectivePage(q) - 1) * EffectiveLimit(q)

\* const to = from + l - 1
RangeTo(q) == RangeFrom(q) + EffectiveLimit(q) - 1

\* .order('created_at', { ascending: false }): rows are inserted with
\* non-decreasing created_at, so the latest row comes first
NewestFirst(rows) == [i \in 1..Len(rows) |-> rows[Len(rows) + 1 - i]]

\* .range(from, to) of the ordered result: rows from..to, counted from 0
Range(rows, from, to) ==
  LET last == Min(to + 1, Len(rows))
  IN IF from + 1 > last THEN <<>>
     ELSE [i \in 1..(last - from) |-> rows[from + i].message_id]

\* app.get('/logs'): the synchronous start of the handler
ReceiveLogs(h, q) ==
  /\ handlers[h].pc \in {"idle", "done"}
  /\ received' = received + 1
  /\ LET fresh == [IdleHandler EXCEPT !.body = <<q>>, !.prev = handlers[h].req,
                                      !.startLen = Len(messages)]
     IN handlers' = [handlers EXCEPT ![h] =
          IF ~supabase THEN [fresh EXCEPT !.pc = "done", !.res = 500]
          ELSE [fresh EXCEPT !.pc = "lg_query"]]
  /\ UNCHANGED <<supabase, messages, contacts>>

\* await query.range(from, to) and the response.  A range that is no window
\* (to < from) is answered by the store with an error or with no rows.
LogsQuery(h, ok) ==
  /\ handlers[h].pc = "lg_query"
  /\ ok \/ RangeTo(handlers[h].body[1]) < RangeFrom(handlers[h].body[1])
  /\ LET q == handlers[h].body[1]
     IN handlers' = [handlers EXCEPT
          ![h].calls = Append(@, [site |-> "lg_query", ok |-> ok]),
          ![h].logs = IF ok
                        THEN <<[page |-> EffectivePage(q), limit |-> EffectiveLimit(q),
                               from |-> RangeFrom(q), to |-> RangeTo(q),
                               data |-> Range(NewestFirst(messages), RangeFrom(q), RangeTo(q))]>>
                        ELSE <<>>,
          ![h].pc = "done",
          ![h].res = IF ok THEN 200 ELSE 500]
  /\ UNCHANGED <<supabase, messages, contacts, received>>

\* Two handlers in flight, every send and store call succeeding
Next ==
  \E h \in Handlers :
    \/ \E p \in ConcPayloads : received < MaxRequests /\ Receive(h, p)
    \/ StatusLookup(h, TRUE)
    \/ StatusUpdate(h, TRUE)
    \/ StatusInsert(h, TRUE)
    \/ StatusUpsert(h, TRUE)
    \/ StatusIncrement(h, TRUE)
    \/ WelcomeLookup(h, TRUE)
    \/ Send(h, TRUE)
    \/ ReplyInsert(h, TRUE)
    \/ ReplyUpsert(h, TRUE)
    \/ ReplyIncrement(h, TRUE)
    \/ IncomingInsert(h, TRUE)
    \/ IncomingUpsert(h, TRUE)
    \/ IncomingIncrement(h, TRUE)

Spec == Init /\ [][Next]_vars

\* One request at a time (section 5's processing model), every call succeeding
NextSeq ==
  \/ \E p \in SeqPayloads : received < MaxRequests /\ Receive("h1", p)
  \/ \E b \in SetNameBodies : received < MaxRequests /\ ReceiveSetName("h1", b)
  \/ SetNameUpsert("h1", TRUE)
  \/ SetNameIncrement("h1", TRUE)
  \/ StatusLookup("h1", TRUE)
  \/ StatusUpdate("h1", TRUE)
  \/ StatusInsert("h1", TRUE)
  \/ StatusUpsert("h1", TRUE)
  \/ StatusIncrement("h1", TRUE)
  \/ WelcomeLookup("h1", TRUE)
  \/ Send("h1", TRUE)
  \/ ReplyInsert("h1", TRUE)
  \/ ReplyUpsert("h1", TRUE)
  \/ ReplyIncrement("h1", TRUE)
  \/ IncomingInsert("h1", TRUE)
  \/ IncomingUpsert("h1", TRUE)
  \/ IncomingIncrement("h1", TRUE)

SpecSeq == Init /\ [][NextSeq]_vars

\* The awaited calls of h's request that have failed so far
Faults(h) ==
  Cardinality({ i \in 1..Len(handlers[h].calls) : ~handlers[h].calls[i].ok })

\* An awaited call of h may fail while the request has had fewer than MaxFaults failures.
MayFail(h, ok) == ok \/ Faults(h) < MaxFaults

\* One webhook at a time, where the awaited send and store calls may fail
\* and the store client may be missing (SUPABASE_URL or the key not set).
InitFault ==
  /\ supabase \in BOOLEAN
  /\ messages = <<>>
  /\ contacts = [q \in {} |-> 0]
  /\ handlers = [h \in Handlers |-> IdleHandler]
  /\ received = 0

NextFault ==
  \/ \E p \in FaultPayloads : received < MaxFaultRequests /\ Receive("h1", p)
  \/ \E ok \in BOOLEAN : MayFail("h1", ok) /\ StatusLookup("h1", ok)
  \/ \E ok \in BOOLEAN : MayFail("h1", ok) /\ StatusUpdate("h1", ok)
  \/ \E ok \in BOOLEAN : MayFail("h1", ok) /\ StatusInsert("h1", ok)
  \/ \E ok \in BOOLEAN : MayFail("h1", ok) /\ StatusUpsert("h1", ok)
  \/ \E ok \in BOOLEAN : MayFail("h1", ok) /\ StatusIncrement("h1", ok)
  \/ \E ok \in BOOLEAN : MayFail("h1", ok) /\ WelcomeLookup("h1", ok)
  \/ \E ok \in BOOLEAN : MayFail("h1", ok) /\ Send("h1", ok)
  \/ \E ok \in BOOLEAN : MayFail("h1", ok) /\ ReplyInsert("h1", ok)
  \/ \E ok \in BOOLEAN : MayFail("h1", ok) /\ ReplyUpsert("h1", ok)
  \/ \E ok \in BOOLEAN : MayFail("h1", ok) /\ ReplyIncrement("h1", ok)
  \/ \E ok \in BOOLEAN : MayFail("h1", ok) /\ IncomingInsert("h1", ok)
  \/ \E ok \in BOOLEAN : MayFail("h1", ok) /\ IncomingUpsert("h1", ok)
  \/ \E ok \in BOOLEAN : MayFail("h1", ok) /\ IncomingIncrement("h1", ok)

SpecFault == InitFault /\ [][NextFault]_vars

\* The dashboard reading the ledger between webhooks, one request at a time
NextLogs ==
  \/ \E p \in LogsPayloads : received < MaxRequests /\ Receive("h1", p)
  \/ \E q \in LogsQueries : received < MaxRequests /\ ReceiveLogs("h1", q)
  \/ \E ok \in BOOLEAN : LogsQuery("h1", ok)
  \/ StatusLookup("h1", TRUE)
  \/ StatusUpdate("h1", TRUE)
  \/ StatusInsert("h1", TRUE)
  \/ StatusUpsert("h1", TRUE)
  \/ StatusIncrement("h1", TRUE)
  \/ WelcomeLookup("h1", TRUE)
  \/ Send("h1", TRUE)
  \/ ReplyInsert("h1", TRUE)
  \/ ReplyUpsert("h1", TRUE)
  \/ ReplyIncrement("h1", TRUE)
  \/ IncomingInsert("h1", TRUE)
  \/ IncomingUpsert("h1", TRUE)
  \/ IncomingIncrement("h1", TRUE)

SpecLogs == Init /\ [][NextLogs]_vars


\* ------------------------------------------------------------- properties
\* The handler of h has been through handleIncomingMessage's send.
AfterSend(h) ==
  /\ handlers[h].pc \in {"rp_insert", "rp_upsert", "rp_incr",
                         "in_insert", "in_upsert", "in_incr", "done"}
  /\ handlers[h].res \in {0, 200}

\* The request of h carries a text message from somebody else.
TextFromOther(p) ==
  /\ HasMessage(p)
  /\ p.messages[1].type = "text"
  /\ p.messages[1].from # PHONE_NUMBER_ID

StatusOnlyPayload(p) == p.envelope = "ok" /\ HasStatus(p) /\ ~HasMessage(p)

\* The ledger as it was when the request of h arrived.
LedgerAtStart(h) == SubSeq(messages, 1, handlers[h].startLen)

\* C1: an incoming text from a non-self sender whose contact was read with no
\* last_kind = 'reply' (no record, or another last_kind) is answered with
\* exactly one send, the welcome text as a reply-context message quoting the
\* incoming message id, and not with the call-to-action.
C1_WelcomeWithoutPriorReply ==
  \A h \in Handlers :
    (TextFromOther(handlers[h].req) /\ AfterSend(h) /\ handlers[h].lastKind # "reply")
      => /\ Len(handlers[h].sends) = 1
         /\ handlers[h].sends[1].request =
              [fn |-> "replyMessage", to |-> handlers[h].req.messages[1].from,
               type |-> "text", body |-> WELCOME_MESSAGE,
               context |-> handlers[h].req.messages[1].id]

\* A text was answered after the lookup returned a record whose last_kind is 'incoming'.
C1_Witness ==
  \E h \in Handlers :
    /\ TextFromOther(handlers[h].req) /\ AfterSend(h)
    /\ handlers[h].lastKind = "incoming"
    /\ Len(handlers[h].sends) = 1

\* C2 (as claimed): once a first-contact text has been handled to the end
\* (HTTP 200, every call succeeding), the sender's contact has last_kind = 'reply'.
C2_LastKindReplyAfterFirstContact ==
  LET r == handlers["h1"] IN
  (r.pc = "done" /\ r.res = 200 /\ TextFromOther(r.req) /\ r.lastKind # "reply")
    => /\ r.req.messages[1].from \in DOMAIN contacts
       /\ contacts[r.req.messages[1].from].last_kind = "reply"

\* C3 (as claimed): a text that follows a fully handled text of the same phone,
\* with nothing in between, is answered with sendCallAndWebsiteButtons.
C3_SecondTextGetsButtons ==
  LET r == handlers["h1"] IN
  (/\ r.pc = "done" /\ r.res = 200
   /\ TextFromOther(r.req) /\ ~HasStatus(r.req)
   /\ TextFromOther(r.prev) /\ ~HasStatus(r.prev)
   /\ r.prev.messages[1].from = r.req.messages[1].from)
    => /\ Len(r.sends) = 1
       /\ r.sends[1].request.fn = "sendCallAndWebsiteButtons"

\* C4: an incoming text whose contact was read with last_kind = 'reply' is
\* answered with the call-to-action interactive message and never the welcome.
C4_ButtonsAfterPriorReply ==
  \A h \in Handlers :
    (TextFromOther(handlers[h].req) /\ AfterSend(h) /\ handlers[h].lastKind = "reply")
      => /\ Len(handlers[h].sends) = 1
         /\ handlers[h].sends[1].request =
              [fn |-> "sendCallAndWebsiteButtons",
               to |-> handlers[h].req.messages[1].from,
               type |-> "interactive", body |-> CTA_TEXT, context |-> NULL]

\* A text was answered after the lookup read last_kind = 'reply'.
C4_Witness ==
  \E h \in Handlers :
    /\ TextFromOther(handlers[h].req) /\ AfterSend(h)
    /\ handlers[h].lastKind = "reply"
    /\ Len(handlers[h].sends) = 1

SelfPayload(p) == HasMessage(p) /\ p.messages[1].from = PHONE_NUMBER_ID

\* C5 (as claimed): while a payload whose message is from PHONE_NUMBER_ID is
\* handled, with or without a status object beside it, no step writes the
\* ledger or the contacts and nothing is sent.
C5_SelfPayloadWritesNothing ==
  [][SelfPayload(handlers'["h1"].req)
       => /\ messages' = messages
          /\ contacts' = contacts
          /\ handlers'["h1"].sends = <<>>]_vars

\* C5 (amended): a self message is never answered and never logged: nothing is
\* sent, no incoming or reply row is inserted and no upsert is made for it.
\* Without a status object the payload writes nothing at all; a status object
\* in the same payload is still reconciled, before the self check, by the
\* status branch alone (one row updated or one kind=status row inserted, and
\* the status upsert of the recipient).
C5_SelfMessageIgnored ==
  [][SelfPayload(handlers'["h1"].req)
       => /\ handlers'["h1"].sends = <<>>
          /\ ~HasStatus(handlers'["h1"].req)
               => (messages' = messages /\ contacts' = contacts)
          /\ messages' # messages
               => /\ handlers["h1"].pc \in {"st_update", "st_insert"}
                  /\ \A i \in (Len(messages) + 1)..Len(messages') :
                       messages'[i].kind = "status"
          /\ contacts' # contacts
               => /\ handlers["h1"].pc \in {"st_upsert", "st_incr"}
                  /\ \A q \in DOMAIN contacts' : contacts'[q].last_kind = "status"
                        \/ (q \in DOMAIN contacts /\ contacts'[q] = contacts[q])]_vars

\* A payload with a status object and a self message was answered 200 after
\* its status object had been reconciled into a new ledger row.
C5_Witness ==
  LET r == handlers["h1"] IN
  /\ r.pc = "done" /\ r.res = 200
  /\ SelfPayload(r.req) /\ HasStatus(r.req)
  /\ r.sends = <<>>
  /\ Len(messages) = r.startLen + 1

\* C6: a status event handled alone whose id matched one ledger row when it
\* arrived overwrites that row's status with its own and sets updated_at;
\* no row is inserted and the id still has exactly one row.
C6_StatusUpdatesInPlace ==
  LET r == handlers["h1"] IN
  (/\ r.pc = "done" /\ StatusOnlyPayload(r.req)
   /\ RowCount(LedgerAtStart("h1"), r.req.statuses[1].id) = 1)
    => /\ Len(messages) = r.startLen
       /\ RowCount(messages, r.req.statuses[1].id) = 1
       /\ \A i \in Matching(messages, r.req.statuses[1].id) :
            /\ messages[i].status = r.req.statuses[1].status
            /\ messages[i].updated_at = Now

\* A status event found one row whose status differed from its own and has been handled.
C6_Witness ==
  LET r == handlers["h1"] IN
  /\ r.pc = "done" /\ StatusOnlyPayload(r.req)
  /\ r.existingMessage # <<>>
  /\ r.existingMessage[1].status # r.req.statuses[1].status
  /\ Len(messages) = r.startLen

\* C7: a status event whose id matched no ledger row when it arrived inserts
\* exactly one row: kind = 'status', message_id = its id, status = its status,
\* to = recipient_id, raw = the value object it came in.
C7_StatusInsertsOneRow ==
  LET r == handlers["h1"] IN
  (/\ r.pc = "done" /\ r.res = 200 /\ HasStatus(r.req)
   /\ RowCount(LedgerAtStart("h1"), r.req.statuses[1].id) = 0)
    => /\ Len(messages) > r.startLen
       /\ Cardinality({ i \in (r.startLen + 1)..Len(messages) :
                          messages[i].kind = "status" }) = 1
       /\ messages[r.startLen + 1].kind = "status"
       /\ messages[r.startLen + 1].message_id = r.req.statuses[1].id
       /\ messages[r.startLen + 1].status = r.req.statuses[1].status
       /\ messages[r.startLen + 1].to = r.req.statuses[1].recipient_id
       /\ messages[r.startLen + 1].raw = <<r.req>>
       /\ StatusOnlyPayload(r.req) => Len(messages) = r.startLen + 1

\* A status event arrived at a ledger holding rows, none with its id, and has been handled.
C7_Witness ==
  LET r == handlers["h1"] IN
  /\ r.pc = "done" /\ StatusOnlyPayload(r.req)
  /\ r.startLen > 0
  /\ RowCount(LedgerAtStart("h1"), r.req.statuses[1].id) = 0
  /\ Len(messages) = r.startLen + 1

\* C8 (as claimed): the second of two consecutive deliveries of the same status
\* event changes neither the number of rows of its id nor their status,
\* whatever sequentially reachable ledger the first delivery started from.
C8_StatusReplayIdempotent ==
  LET r == handlers["h1"] IN
  (r.pc = "done" /\ StatusOnlyPayload(r.req) /\ r.prev = r.req)
    => /\ Len(messages) = r.startLen
       /\ \A i \in Matching(messages, r.req.statuses[1].id) :
            messages[i].status = r.req.statuses[1].status

\* Both handlers have handled one status callback each, for the same id, and
\* these are the only two requests received.
TwoStatusCallbacksDone ==
  /\ received = 2
  /\ \A h \in Handlers : handlers[h].pc = "done" /\ StatusOnlyPayload(handlers[h].req)
  /\ handlers["h1"].req.statuses[1].id = handlers["h2"].req.statuses[1].id

\* C9 (as claimed): however two status callbacks for one id interleave, the
\* ledger ends with exactly one row for that id.
C9_TwoCallbacksOneRow ==
  TwoStatusCallbacksDone
    => RowCount(messages, handlers["h1"].req.statuses[1].id) = 1

\* C9 (amended): two status callbacks for an id the ledger has no row of end
\* with one row when one handler's lookup ran after the other's insert (it
\* then updates that row), and with two rows when both lookups ran before
\* either insert; never with none and never with more than two.
C9_TwoCallbacksOneOrTwoRows ==
  TwoStatusCallbacksDone
    => /\ RowCount(messages, handlers["h1"].req.statuses[1].id) \in {1, 2}
       /\ Len(messages) = RowCount(messages, handlers["h1"].req.statuses[1].id)
       /\ RowCount(messages, handlers["h1"].req.statuses[1].id) = 2
            <=> \A h \in Handlers : handlers[h].existingMessage = <<>>

\* Two status callbacks for one id overlapped and both inserted.
C9_Witness ==
  /\ TwoStatusCallbacksDone
  /\ RowCount(messages, handlers["h1"].req.statuses[1].id) = 2

\* C10 (as claimed): a status event that arrives when its id already has one
\* or more committed rows inserts no row.
C10_NoInsertOnceRowsExist ==
  [][\A h \in Handlers :
       (/\ handlers[h].pc = "st_insert"
        /\ RowCount(LedgerAtStart(h), handlers[h].req.statuses[1].id) >= 1)
         => Len(messages') = Len(messages)]_vars

\* The rows a step has changed (rows that exist before and after it).
ChangedRows == { i \in 1..Len(messages) : i <= Len(messages') /\ messages'[i] # messages[i] }

\* C11 (as claimed): under every interleaving, the update step of the status
\* reconciliation modifies at most one ledger row.
C11_UpdateTouchesOneRow ==
  [][\A h \in Handlers :
       (handlers[h].pc = "st_update" /\ handlers'[h].pc = "st_upsert")
         => Cardinality(ChangedRows) <= 1]_vars

\* The request of h is one of those C12 is about.
Rejectable(p) ==
  \/ p.envelope \in {"no_entry", "empty_entry", "no_changes", "empty_changes", "no_value"}
  \/ p.envelope = "ok" /\ ~HasStatus(p) /\ ~HasMessage(p)

\* C12 (as claimed): a payload without the outer envelope (no entry, empty
\* entry, no changes, empty changes, no value), or whose value has neither a
\* status nor a message object, is answered 400 and writes and sends nothing.
C12_BadPayloadRejected400 ==
  [][(Rejectable(handlers'["h1"].req) /\ handlers'["h1"].pc = "done")
       => /\ handlers'["h1"].res = 400
          /\ messages' = messages
          /\ contacts' = contacts
          /\ handlers'["h1"].sends = <<>>]_vars

\* The sites of the awaited calls h's request has made so far.
CalledSites(h) == { handlers[h].calls[i].site : i \in 1..Len(handlers[h].calls) }

\* The awaited call of h's request at site has been made and failed.
FailedAt(h, site) ==
  \E i \in 1..Len(handlers[h].calls) :
    handlers[h].calls[i].site = site /\ ~handlers[h].calls[i].ok

\* The awaited call of h's request at site has been made and took effect.
SucceededAt(h, site) ==
  \E i \in 1..Len(handlers[h].calls) :
    handlers[h].calls[i].site = site /\ handlers[h].calls[i].ok

\* The rows inserted since h's request arrived.
NewRows(h) == { messages[i] : i \in (handlers[h].startLen + 1)..Len(messages) }

\* C13: when the send of the reply path (welcome, call-to-action or selection
\* acknowledgment) fails, the reply path stops there: the request makes no
\* reply-row insert and no reply upsert and no kind=reply row appears; the
\* request still ends with HTTP 200 after calling the incoming-row insert and
\* the incoming upsert, which leave the incoming row and last_kind='incoming'
\* when they succeed.
C13_SendFailureAbortsReplyOnly ==
  LET r == handlers["h1"] IN
  FailedAt("h1", "send")
    => /\ CalledSites("h1") \cap {"rp_insert", "rp_upsert", "rp_incr"} = {}
       /\ \A row \in NewRows("h1") : row.kind # "reply"
       /\ r.pc \in {"in_insert", "in_upsert", "in_incr", "done"}
       /\ r.pc = "done"
            => /\ r.res = 200
               /\ {"in_insert", "in_upsert"} \subseteq CalledSites("h1")
               /\ SucceededAt("h1", "in_insert")
                    => messages[Len(messages)] =
                         [Normalized(IncomingRow(r.req.messages[1])) EXCEPT !.created_at = Now]
               /\ SucceededAt("h1", "in_upsert")
                    => contacts[r.req.messages[1].from].last_kind = "incoming"

\* A text whose contact already had last_kind = 'reply' was handled to the end
\* with its call-to-action send failing and its incoming row written.
C13_Witness ==
  LET r == handlers["h1"] IN
  /\ r.pc = "done" /\ r.res = 200
  /\ FailedAt("h1", "send")
  /\ r.sends[1].request.fn = "sendCallAndWebsiteButtons"
  /\ SucceededAt("h1", "in_insert") /\ SucceededAt("h1", "in_upsert")
  /\ messages[Len(messages)].kind = "incoming"

\* C14 (as claimed): a payload with a text message from a non-self sender has
\* a reply send attempted by the time it is answered, whatever the store calls
\* made for it returned (status reconciliation included) and whether or not
\* the store client is configured.
C14_TextAlwaysGetsSendAttempt ==
  LET r == handlers["h1"] IN
  (r.pc = "done" /\ TextFromOther(r.req)) => Len(r.sends) >= 1

\* h's request has made the awaited call at site, or is about to.
RunsOrRan(h, site) == handlers[h].pc = site \/ site \in CalledSites(h)

\* C15: a failed ledger insert or contact upsert does not stop the request:
\* after a failed reply-row insert the reply upsert runs, after a failed
\* incoming-row or status-row insert the matching upsert runs, after a failed
\* reply upsert the incoming insert and upsert run, and the request is
\* answered HTTP 200.
C15_FailedWriteDoesNotAbort ==
  LET r == handlers["h1"] IN
  /\ FailedAt("h1", "rp_insert") => RunsOrRan("h1", "rp_upsert")
  /\ FailedAt("h1", "in_insert") => RunsOrRan("h1", "in_upsert")
  /\ FailedAt("h1", "st_insert") => RunsOrRan("h1", "st_upsert")
  /\ FailedAt("h1", "rp_upsert") => RunsOrRan("h1", "in_insert")
  /\ (FailedAt("h1", "rp_upsert") /\ r.pc = "done")
       => {"in_insert", "in_upsert"} \subseteq CalledSites("h1")
  /\ (FailedAt("h1", "st_upsert") /\ HasMessage(r.req) /\ ~IsSelf(r.req.messages[1]))
       => r.pc # "done" \/ "in_upsert" \in CalledSites("h1")
  /\ ((\E site \in {"rp_insert", "in_insert", "st_insert",
                    "rp_upsert", "in_upsert", "st_upsert"} : FailedAt("h1", site))
      /\ r.pc = "done")
       => r.res = 200

\* A text was answered 200 after its reply-row insert failed and its reply
\* upsert then took effect.
C15_Witness ==
  LET r == handlers["h1"] IN
  /\ r.pc = "done" /\ r.res = 200
  /\ supabase
  /\ FailedAt("h1", "rp_insert")
  /\ SucceededAt("h1", "rp_upsert")
  /\ SucceededAt("h1", "in_insert")

\* total_messages of phone q in contact table cs (0 while q has no record)
Total(cs, q) == IF q \in DOMAIN cs THEN cs[q].total_messages ELSE 0

\* The phone of the upsertContact call h is in the middle of
UpsertPhone(h) ==
  IF handlers[h].pc \in {"st_upsert", "st_incr"} THEN StatusPhone(handlers[h].req)
  ELSE handlers[h].req.messages[1].from

\* How many of the awaited calls of h's request at one of sites took effect
Succeeded(h, sites) ==
  Cardinality({ i \in 1..Len(handlers[h].calls) :
                  handlers[h].calls[i].site \in sites /\ handlers[h].calls[i].ok })

\* Every request so far went to a handler of its own.
OneRequestEach ==
  received = Cardinality({ h \in Handlers : handlers[h].pc # "idle" })

\* C16, step by step: no step lowers a contact's total_messages; the upsert
\* step of upsertContact leaves it as it was (0 for a new record) and the
\* increment step that follows adds exactly 1 for its phone, whatever the
\* other handler does in between.
C16_StepKeepsTotal ==
  \A q \in DOMAIN contacts' :
    Total(contacts', q) =
      Total(contacts, q) +
        (IF \E h \in Handlers :
              /\ handlers[h].pc \in {"st_incr", "rp_incr", "in_incr"}
              /\ handlers'[h].pc # handlers[h].pc
              /\ UpsertPhone(h) = q
           THEN 1 ELSE 0)

\* C16, in sum: while two overlapping requests are handled, the phone's
\* total_messages is the number of increments made so far, and once both are
\* answered it is the number N of upsertContact calls they made.
C16_TotalCountsUpserts ==
  OneRequestEach
    => /\ Total(contacts, "p1") =
            Succeeded("h1", {"st_incr", "rp_incr", "in_incr"})
          + Succeeded("h2", {"st_incr", "rp_incr", "in_incr"})
       /\ (\A h \in Handlers : handlers[h].pc \in {"idle", "done"})
            => Total(contacts, "p1") =
                   Succeeded("h1", {"st_upsert", "rp_upsert", "in_upsert"})
                 + Succeeded("h2", {"st_upsert", "rp_upsert", "in_upsert"})

\* C16: total_messages of a contact never decreases and no increment is lost:
\* under every interleaving of N upsertContact calls for one phone whose upsert
\* and increment both succeed, total_messages ends exactly N higher (the upsert
\* never writes it, the increment adds 1 atomically).
C16_TotalNeverLosesIncrement ==
  [][C16_StepKeepsTotal]_vars /\ []C16_TotalCountsUpserts

\* Two requests that overlapped (both arrived at the empty ledger and both
\* inserted) have been answered, and the phone's counter stands at 3 or more.
C16_Witness ==
  /\ OneRequestEach
  /\ \A h \in Handlers : handlers[h].pc = "done" /\ handlers[h].startLen = 0
                         /\ Len(handlers[h].calls) >= 4
  /\ Total(contacts, "p1") >= 3

\* The request is one webhook event of phone p1: a status event alone, or a
\* message of p1 alone.
OneEventOfP1(p) ==
  /\ p.envelope = "ok"
  /\ \/ HasStatus(p) /\ ~HasMessage(p) /\ StatusPhone(p) = "p1"
     \/ ~HasStatus(p) /\ HasMessage(p) /\ p.messages[1].from = "p1"

\* C17 (as claimed): with every store call succeeding, a processed webhook
\* event of a phone raises that phone's total_messages by exactly 1 (here: the
\* first request, so from 0 to 1), and a request that is not a webhook event
\* (set-name) does not raise it.
C17_OneIncrementPerEvent ==
  LET r == handlers["h1"] IN
  (received = 1 /\ r.pc = "done" /\ r.res = 200)
    => /\ OneEventOfP1(r.req) => Total(contacts, "p1") = 1
       /\ r.body # <<>> => Total(contacts, "p1") = 0

\* C18 (as claimed): no step of a webhook request changes the stored name of
\* any contact; only POST /contacts/set-name does.
C18_WebhookKeepsNames ==
  [][handlers["h1"].body = <<>>
       => \A q \in DOMAIN contacts : contacts'[q].name = contacts[q].name]_vars

\* The descriptive fields a name-only delta does not carry
LastFields ==
  {"last_message_id", "last_body", "last_type", "last_kind", "last_direction",
   "last_sender_id", "last_recipient_phone"}

\* C19 (as claimed): upsertContact merges its delta over the stored record, so
\* the upsert of POST /contacts/set-name leaves last_message_id, last_body,
\* last_type, last_kind, last_direction, last_sender_id and
\* last_recipient_phone of the contact as they were.
C19_SetNameKeepsLastFields ==
  [][handlers["h1"].pc = "sn_upsert"
       => \A q \in DOMAIN contacts : \A f \in LastFields :
            contacts'[q][f] = contacts[q][f]]_vars

\* C20: a payload carrying only a status object never sends anything; handled
\* with every store call succeeding it leaves a ledger row of its id with its
\* status (updated or inserted), adds no row of another kind, and leaves the
\* recipient's contact with last_kind = 'status', last_direction = 'incoming'.
C20_StatusOnlyReconcilesNoSend ==
  LET r == handlers["h1"] IN
  StatusOnlyPayload(r.req)
    => /\ r.sends = <<>>
       /\ "send" \notin CalledSites("h1")
       /\ \A row \in NewRows("h1") : row.kind = "status"
       /\ r.pc = "done"
            => /\ r.res = 200
               /\ \E i \in Matching(messages, r.req.statuses[1].id) :
                    messages[i].status = r.req.statuses[1].status
               /\ r.req.statuses[1].recipient_id \in DOMAIN contacts
               /\ contacts[r.req.statuses[1].recipient_id].last_kind = "status"
               /\ contacts[r.req.statuses[1].recipient_id].last_direction = "incoming"

\* A status-only payload was handled right after a text of the same phone,
\* whose contact it found with last_kind = 'incoming'.
C20_Witness ==
  LET r == handlers["h1"] IN
  /\ r.pc = "done" /\ r.res = 200
  /\ StatusOnlyPayload(r.req)
  /\ TextFromOther(r.prev)
  /\ r.prev.messages[1].from = r.req.statuses[1].recipient_id
  /\ contacts[r.req.statuses[1].recipient_id].last_kind = "status"

\* The request of h carries an interactive list_reply or button_reply.
SelectionFromOther(p) ==
  /\ HasMessage(p)
  /\ p.messages[1].type = "interactive"
  /\ p.messages[1].interactive[1].type \in {"list_reply", "button_reply"}
  /\ p.messages[1].from # PHONE_NUMBER_ID

\* The acknowledgment text of the selection {id: 'second_option', title: 'Second option'}
AckText(itype) ==
  IF itype = "list_reply"
    THEN "You selected the option with ID second_option - Title Second option"
    ELSE "You selected the button with ID second_option - Title Second option"

\* C21: an incoming list_reply or button_reply is acknowledged without any
\* hasReceivedWelcome lookup, whatever the contact's record: exactly one send,
\* a plain text without reply context whose body is 'You selected the option
\* (button) with ID <id> - Title <title>', and one kind=reply row with that
\* body whose interactive_selection is the selection object.
C21_SelectionAcknowledged ==
  LET r == handlers["h1"]
      m == r.req.messages[1]
  IN SelectionFromOther(r.req)
       => /\ "hw_lookup" \notin CalledSites("h1")
          /\ Len(r.sends) <= 1
          /\ AfterSend("h1")
               => /\ Len(r.sends) = 1
                  /\ r.sends[1].request =
                       [fn |-> "sendMessage", to |-> m.from, type |-> "text",
                        body |-> AckText(m.interactive[1].type), context |-> NULL]
          /\ r.pc = "done"
               => Cardinality({ i \in (r.startLen + 1)..Len(messages) :
                                  /\ messages[i].kind = "reply"
                                  /\ messages[i].body = AckText(m.interactive[1].type)
                                  /\ messages[i].to = m.from
                                  /\ messages[i].interactive_selection =
                                       <<m.interactive[1].reply>> }) = 1

\* A list_reply from a phone whose contact record already existed (left by a
\* text just before) has been acknowledged and handled to the end.
C21_Witness ==
  LET r == handlers["h1"] IN
  /\ r.pc = "done" /\ r.res = 200
  /\ SelectionFromOther(r.req)
  /\ r.req.messages[1].interactive[1].type = "list_reply"
  /\ TextFromOther(r.prev)
  /\ Len(r.sends) = 1
  /\ Len(messages) = r.startLen + 2

\* The request of h carries a message of another sender whose type is neither
\* text nor interactive.
UnclassifiedFromOther(p) ==
  /\ HasMessage(p)
  /\ p.messages[1].type \notin {"text", "interactive"}
  /\ p.messages[1].from # PHONE_NUMBER_ID

\* C22: a message from a non-self sender whose type is neither 'text' nor
\* 'interactive' is never answered: no lookup, no send, no kind=reply row and
\* no reply upsert; handled to the end it has inserted exactly one row, the
\* kind=incoming row of the message, and made exactly one contact upsert,
\* which leaves last_kind = 'incoming'.
C22_UnclassifiedOnlyLogged ==
  LET r == handlers["h1"]
      m == r.req.messages[1]
  IN UnclassifiedFromOther(r.req)
       => /\ r.sends = <<>>
          /\ CalledSites("h1") \cap {"hw_lookup", "send", "rp_insert", "rp_upsert", "rp_incr"} = {}
          /\ \A row \in NewRows("h1") : row.kind # "reply"
          /\ r.pc = "done"
               => /\ r.res = 200
                  /\ ~HasStatus(r.req) => Len(messages) = r.startLen + 1
                  /\ messages[Len(messages)] =
                       [Normalized(IncomingRow(m)) EXCEPT !.created_at = Now]
                  /\ messages[Len(messages)].kind = "incoming"
                  /\ messages[Len(messages)].message_id = m.id
                  /\ Succeeded("h1", {"rp_upsert", "in_upsert"}) = 1
                  /\ contacts[m.from].last_kind = "incoming"

\* An image from a phone that wrote before has been handled to the end.
C22_Witness ==
  LET r == handlers["h1"] IN
  /\ r.pc = "done" /\ r.res = 200
  /\ UnclassifiedFromOther(r.req)
  /\ TextFromOther(r.prev)
  /\ Len(messages) = r.startLen + 1
  /\ contacts[r.req.messages[1].from].last_type = "image"

\* h's request is a text of a phone the store knew nothing of when it arrived:
\* no ledger row of the phone, and a counter that has only this request's
\* increments in it.
FirstEverText(h) ==
  LET r == handlers[h] IN
  /\ TextFromOther(r.req) /\ ~HasStatus(r.req)
  /\ \A i \in 1..r.startLen : messages[i].phone # r.req.messages[1].from
  /\ Total(contacts, r.req.messages[1].from) =
       Succeeded(h, {"rp_incr", "in_incr"})

C24_LogsWindow ==
  LET r == handlers["h1"] IN
  r.pc = "lg_query"
    => LET q == r.body[1] IN
       /\ EffectiveLimit(q) <= 200
       /\ EffectivePage(q) >= 1
       /\ RangeFrom(q) = (EffectivePage(q) - 1) * EffectiveLimit(q)
       /\ RangeTo(q) = EffectivePage(q) * EffectiveLimit(q) - 1
       /\ 0 <= RangeFrom(q)
       /\ RangeFrom(q) <= RangeTo(q)

\* The place of an awaited call in the order the handler's code issues them
SiteRank(site) ==
  CASE site = "idle" -> 0
    [] site = "st_lookup" -> 1
    [] site \in {"st_update", "st_insert"} -> 2
    [] site = "st_upsert" -> 3
    [] site = "st_incr" -> 4
    [] site = "hw_lookup" -> 5
    [] site = "send" -> 6
    [] site = "rp_insert" -> 7
    [] site = "rp_upsert" -> 8
    [] site = "rp_incr" -> 9
    [] site = "in_insert" -> 10
    [] site = "in_upsert" -> 11
    [] site = "in_incr" -> 12
    [] OTHER -> 13

\* C25: the awaited calls of one request are made one after the other in the
\* order send, reply-row insert, reply upsert, incoming-row insert, incoming
\* upsert, each after the previous one returned; so a reply row is inserted
\* only after a send that succeeded, a replied message handled to the end has
\* gone through all five, and the contact's last write is the incoming upsert.
C25_StepsInStrictOrder ==
  LET r == handlers["h1"]
      c == r.calls
  IN /\ \A i, j \in 1..Len(c) : i < j => SiteRank(c[i].site) < SiteRank(c[j].site)
     /\ \A i \in 1..Len(c) : SiteRank(c[i].site) < SiteRank(r.pc)
     /\ "rp_insert" \in CalledSites("h1") => SucceededAt("h1", "send")
     /\ (\E row \in NewRows("h1") : row.kind = "reply") => SucceededAt("h1", "send")
     /\ (r.pc = "done" /\ SucceededAt("h1", "send"))
          => /\ {"rp_insert", "rp_upsert", "in_insert", "in_upsert"} \subseteq CalledSites("h1")
             /\ SucceededAt("h1", "in_upsert")
                  => contacts[r.req.messages[1].from].last_kind = "incoming"

\* A text was replied to and handled to the end with all five steps taking
\* effect, leaving its reply row, its incoming row and last_kind = 'incoming'.
C25_Witness ==
  LET r == handlers["h1"] IN
  /\ r.pc = "done" /\ r.res = 200
  /\ \A site \in {"send", "rp_insert", "rp_upsert", "in_insert", "in_upsert"} :
       SucceededAt("h1", site)
  /\ Len(messages) = r.startLen + 2
  /\ messages[Len(messages) - 1].kind = "reply"
  /\ messages[Len(messages)].kind = "incoming"
  /\ contacts[r.req.messages[1].from].last_kind = "incoming"

UpsertSites == {"st_upsert", "rp_upsert", "in_upsert"}
IncrementSites == {"st_incr", "rp_incr", "in_incr"}

\* The last_kind the upsertContact call at site writes
KindAt(site) ==
  CASE site \in {"st_upsert", "st_incr"} -> "status"
    [] site \in {"rp_upsert", "rp_incr"} -> "reply"
    [] site \in {"in_upsert", "in_incr"} -> "incoming"

\* The step just taken was h's awaited call at one of sites, and it failed.
JustFailed(h, sites) ==
  /\ handlers[h].pc \in sites
  /\ handlers'[h].pc # handlers[h].pc
  /\ ~handlers'[h].calls[Len(handlers'[h].calls)].ok

\* C26: when the increment of an upsertContact call fails, the record its
\* upsert wrote is there and stays as written, and the request goes on (no
\* error reaches the handler); when the upsert itself fails, the increment
\* is not called and the counter keeps its value.
C26_IncrementFailureKeepsUpsert ==
  [][LET r == handlers["h1"] IN
     /\ JustFailed("h1", IncrementSites)
          => /\ UpsertPhone("h1") \in DOMAIN contacts
             /\ contacts[UpsertPhone("h1")].last_kind = KindAt(r.pc)
             /\ contacts' = contacts
             /\ handlers'["h1"].res \in {0, 200}
             /\ SiteRank(handlers'["h1"].pc) > SiteRank(r.pc)
     /\ JustFailed("h1", UpsertSites)
          => /\ handlers'["h1"].pc \notin IncrementSites
             /\ contacts' = contacts
             /\ handlers'["h1"].res \in {0, 200}]_vars

\* A text was answered 200 although the increment after its incoming upsert
\* failed: the contact carries the upsert's fields and one increment fewer.
C26_Witness ==
  LET r == handlers["h1"] IN
  /\ r.pc = "done" /\ r.res = 200
  /\ TextFromOther(r.req) /\ ~HasStatus(r.req)
  /\ FailedAt("h1", "in_incr")
  /\ SucceededAt("h1", "in_upsert")
  /\ contacts[r.req.messages[1].from].last_kind = "incoming"
  /\ contacts[r.req.messages[1].from].last_message_id = r.req.messages[1].id

\* The columns a status update must leave alone
KeptColumns == DOMAIN BaseRow \ {"status", "updated_at"}

\* The step is the status update of h, made for the row its lookup returned.
IsStatusUpdateOf(h) ==
  /\ handlers[h].pc = "st_update"
  /\ handlers'[h].pc = "st_upsert"
  /\ handlers'[h].calls[Len(handlers'[h].calls)].ok

\* C27 (as claimed): the update made for a status event that matched a ledger
\* row changes only status and updated_at of that row; its other columns keep
\* their values, no row is added or removed, and every other row is unchanged.
C27_UpdateChangesOnlyMatchedRow ==
  [][\A h \in Handlers :
       IsStatusUpdateOf(h)
         => LET k == handlers[h].existingMessage[1].id IN
            /\ Len(messages') = Len(messages)
            /\ messages'[k].status = handlers[h].req.statuses[1].status
            /\ messages'[k].updated_at = Now
            /\ \A f \in KeptColumns : messages'[k][f] = messages[k][f]
            /\ \A i \in 1..Len(messages) : i # k => messages'[i] = messages[i]]_vars

\* No request is being handled.
AtRest == handlers["h1"].pc \in {"idle", "done"}

C29_ExactlyOneSendPerText ==
  LET r == handlers["h1"] IN
  (r.pc = "done" /\ TextFromOther(r.req))
    => /\ Len(r.sends) = 1
       /\ r.sends[1].request.fn \in {"replyMessage", "sendCallAndWebsiteButtons"}
       /\ (~supabase \/ FailedAt("h1", "hw_lookup") \/ r.lastKind = NULL)
            => /\ r.sends[1].request.fn = "replyMessage"
               /\ r.sends[1].request.body = WELCOME_MESSAGE

\* C30 (as claimed): the status branch inserts a kind=status row only after a
\* lookup that succeeded and found nothing: when the lookup returned an error
\* (store failure, or several rows for .single()), it inserts no row for a
\* message_id the ledger already has a row of.
C30_InsertOnlyAfterCleanLookup ==
  [][(/\ handlers["h1"].pc = "st_insert"
       /\ Len(messages') > Len(messages)
       /\ ~SucceededAt("h1", "st_lookup"))
       => RowCount(messages, handlers["h1"].req.statuses[1].id) = 0]_vars

====
